---- MODULE Spec2Model ----
(***************************************************************************)
(* Model of MatrixRTCSessionManager (src/matrixrtc/MatrixRTCSessionManager *)
(* .ts): the per-room registry of MatrixRTCSession objects, the three      *)
(* client event handlers, the decryption gate with its single retry and    *)
(* the SessionStarted / SessionEnded transition detector.                  *)
(*                                                                         *)
(* Session objects are identified by the order of their construction       *)
(* (1, 2, ...); two references are the same object iff the numbers agree.  *)
(***************************************************************************)
EXTENDS Integers, Sequences, FiniteSets, TLC

\* ---------------------------------------------------------------- bounds
MaxMembers == 2      \* largest membership count a room state carries
MaxSessions == 2     \* session objects constructed in one behaviour
MaxEvents == 2       \* timeline events delivered in one behaviour

\* ------------------------------------------------------------- constants
RoomOrder == <<"r1">>                \* rooms in client.getRooms() order
Rooms == {RoomOrder[i] : i \in 1..Len(RoomOrder)}
GhostRoom == "rx"                    \* an id client.getRoom never resolves
RoomIds == Rooms \cup {GhostRoom}
NoSession == 0                       \* undefined / no Map entry
Sessions == 1..MaxSessions
Events == 1..MaxEvents
Streams == {"Room", "Timeline", "RoomState"}
CallEncryptionKeysPrefix == "keys"   \* EventType.CallEncryptionKeysPrefix
GroupCallMemberPrefix == "member"    \* EventType.GroupCallMemberPrefix
OtherType == "other"
SessionStarted == "session_started"
SessionEnded == "session_ended"

VARIABLES
    knownRooms,    \* rooms the client resolves (getRooms / getRoom)
    roomMembers,   \* room -> number of RTC memberships in its room state
    subscribed,    \* client streams the manager's handlers are attached to
    roomSessions,  \* the registry: room -> session object or NoSession
    nextId,        \* identity of the next session object constructed
    memberships,   \* room -> sess.memberships.length of the session
                   \* registered for the room (0 while none is)
    stopCount,     \* session -> number of sess.stop() calls received
    evRoom,        \* event -> event.getRoomId()
    evType,        \* event -> event.getType() once decrypted
    evPhase,       \* event -> position of its consumeCallEncryptionEvent
    evRetry,       \* event -> isRetry of the invocation in progress
    evFailed,      \* event -> event.isDecryptionFailure()
    evWarn,        \* event -> logger.warn calls made for it
    evReq,         \* event -> decryptEventIfNeeded calls made for it
    dispatched,    \* the events passed to onCallEncryption, in call order
    emitted,       \* notifications emitted by the last step
    calls,         \* session methods invoked by the last step
    ret,           \* value returned by the last lookup
    last,          \* the manager operation the last step performed, if any
    noted          \* room -> type of the last notification emitted for it
                   \* since the last start() or stop(), "-" if none

regVars == <<roomSessions, nextId, memberships, stopCount>>
envVars == <<knownRooms, roomMembers, subscribed>>
evVars == <<evRoom, evType, evPhase, evRetry, evFailed, evWarn, evReq,
            dispatched>>
outVars == <<emitted, calls, ret, last>>
vars == <<knownRooms, roomMembers, subscribed, roomSessions, nextId,
          memberships, stopCount, evRoom, evType, evPhase, evRetry,
          evFailed, evWarn, evReq, dispatched, emitted, calls, ret,
          last, noted>>

Op(op, room) == [op |-> op, room |-> room]
StateOp(room, type) == [op |-> "onRoomState", room |-> room, type |-> type]
Note(type, room, sess) == [type |-> type, roomId |-> room, session |-> sess]
Call(method, sess) == [method |-> method, session |-> sess]

Init ==
    /\ knownRooms = {}
    /\ roomMembers = [r \in Rooms |-> 0]
    /\ subscribed = {}
    /\ roomSessions = [r \in Rooms |-> NoSession]
    /\ nextId = 1
    /\ memberships = [r \in Rooms |-> 0]
    /\ stopCount = [s \in Sessions |-> 0]
    /\ evRoom = [e \in Events |-> "-"]
    /\ evType = [e \in Events |-> "-"]
    /\ evPhase = [e \in Events |-> "new"]
    /\ evRetry = [e \in Events |-> FALSE]
    /\ evFailed = [e \in Events |-> FALSE]
    /\ evWarn = [e \in Events |-> 0]
    /\ evReq = [e \in Events |-> 0]
    /\ dispatched = <<>>
    /\ emitted = <<>>
    /\ calls = <<>>
    /\ ret = NoSession
    /\ last = Op("init", "-")
    /\ noted = [r \in Rooms |-> "-"]

\* ------------------------------------------------------ session objects
\* MatrixRTCSession.roomSessionForRoom: the memberships of a fresh session
\* are computed from the room state rs at construction.
roomSessionForRoom(rs, r) == rs[r]

\* MatrixRTCSession.onRTCSessionMemberUpdate: recompute the memberships of
\* the session of room r from the room state rs.
onRTCSessionMemberUpdate(mem, rs, r) == [mem EXCEPT ![r] = rs[r]]

\* ------------------------------------------------------------- registry
Has(r) == roomSessions[r] # NoSession

\* Faulty variant: the has() test of line 96 is missing.
getRoomSessionAlwaysNew(r) == [roomSessions EXCEPT ![r] = nextId]

\* getRoomSession: the registry after the call (lines 96-98).
getRoomSessionMap(r) ==
    IF ~Has(r) THEN [roomSessions EXCEPT ![r] = nextId] ELSE roomSessions

\* getRoomSession: the object returned (line 100).
getRoomSessionResult(r) == getRoomSessionMap(r)[r]

\* Whether getRoomSession(r) constructs an object.
Constructs(r) == getRoomSessionResult(r) = nextId

\* An object can still be constructed within the bound.
CanGet(r) == Constructs(r) => nextId <= MaxSessions

\* Registry and object store after getRoomSession(r).
ApplyGet(r) ==
    /\ roomSessions' = getRoomSessionMap(r)
    /\ nextId' = IF Constructs(r) THEN nextId + 1 ELSE nextId

\* Membership lengths once getRoomSession(r) has returned.
MembersAfterGet(rs, r) ==
    IF Constructs(r)
      THEN [memberships EXCEPT ![r] = roomSessionForRoom(rs, r)]
      ELSE memberships

\* Faulty variant: the lookup goes through the creating path.
getActiveRoomSessionCreating(r) == getRoomSessionResult(r)

\* getActiveRoomSession: the value returned (line 88).
getActiveRoomSessionResult(r) == roomSessions[r]

\* ------------------------------------------------------- start and stop
\* client.getRooms(): the rooms the client holds; a client that holds none
\* answers with an empty list or, as a mocked client does, with nothing.
getRooms ==
    IF knownRooms = {}
      THEN {[nothing |-> TRUE, rooms |-> {}], [nothing |-> FALSE, rooms |-> {}]}
      ELSE {[nothing |-> FALSE, rooms |-> knownRooms]}

\* start, line 60: getRooms() ?? [].
orEmpty(g) == IF g.nothing THEN {} ELSE g.rooms

\* Faulty variant: the memberships test of line 62 is missing.
SeededAll(g) == orEmpty(g)

\* start, lines 60-65: the rooms whose fresh session has members.
Seeded(g) == {r \in orEmpty(g) : roomSessionForRoom(roomMembers, r) > 0}
SeedRank(g, r) ==
    Cardinality({i \in 1..Len(RoomOrder) :
        /\ RoomOrder[i] \in Seeded(g)
        /\ \E j \in i..Len(RoomOrder) : RoomOrder[j] = r})

\* start, line 63: the registry after the loop.
startMap(g) ==
    [r \in Rooms |-> IF r \in Seeded(g) THEN nextId + SeedRank(g, r) - 1
                                         ELSE roomSessions[r]]

\* start() is called on a manager that is not running: a second start()
\* without a stop() in between is outside its contract.
start ==
    \E g \in getRooms :
        /\ subscribed = {}
        /\ nextId + Cardinality(Seeded(g)) - 1 <= MaxSessions
        /\ roomSessions' = startMap(g)
        /\ nextId' = nextId + Cardinality(Seeded(g))
        /\ memberships' = [r \in Rooms |->
                     IF r \in Seeded(g) THEN roomSessionForRoom(roomMembers, r)
                                        ELSE memberships[r]]
        /\ subscribed' = Streams
        /\ emitted' = <<>>
        /\ calls' = <<>>
        /\ ret' = NoSession
        /\ last' = Op("start", "-")
        /\ noted' = [r \in Rooms |-> "-"]
        /\ UNCHANGED <<knownRooms, roomMembers, stopCount>>
        /\ UNCHANGED evVars

\* stop, lines 73-75: the sessions that receive stop().
Tracked == {roomSessions[r] : r \in {q \in Rooms : Has(q)}}
stopSessions == [s \in Sessions |->
                   IF s \in Tracked THEN stopCount[s] + 1 ELSE stopCount[s]]

\* Faulty variant: the first entry survives the clear.
clearKeepsFirst == [r \in Rooms |-> IF r = RoomOrder[1] THEN roomSessions[r]
                                                        ELSE NoSession]

\* stop, line 76.
clear == [r \in Rooms |-> NoSession]

\* The stop() calls of one shutdown, listed in room order.
StopCalls ==
    LET F[i \in 0..Len(RoomOrder)] ==
          IF i = 0 THEN <<>>
          ELSE IF Has(RoomOrder[i])
                 THEN Append(F[i-1], Call("stop", roomSessions[RoomOrder[i]]))
                 ELSE F[i-1]
    IN F[Len(RoomOrder)]

stop ==
    /\ stopCount' = stopSessions
    /\ roomSessions' = clear
    /\ subscribed' = {}
    /\ emitted' = <<>>
    /\ calls' = StopCalls
    /\ ret' = NoSession
    /\ last' = Op("stop", "-")
    /\ noted' = [r \in Rooms |-> "-"]
    /\ memberships' = [r \in Rooms |-> 0]   \* no session is registered
    /\ UNCHANGED <<knownRooms, roomMembers, nextId>>
    /\ UNCHANGED evVars

\* -------------------------------------------------------------- lookups
getActiveRoomSession(r) ==
    /\ r \in knownRooms
    /\ ret' = getActiveRoomSessionResult(r)
    /\ emitted' = <<>>
    /\ calls' = <<>>
    /\ last' = Op("getActiveRoomSession", r)
    /\ UNCHANGED <<regVars, noted>>
    /\ UNCHANGED envVars
    /\ UNCHANGED evVars

getRoomSession(r) ==
    /\ r \in knownRooms
    /\ CanGet(r)
    /\ ApplyGet(r)
    /\ memberships' = MembersAfterGet(roomMembers, r)
    /\ ret' = getRoomSessionResult(r)
    /\ emitted' = <<>>
    /\ calls' = <<>>
    /\ last' = Op("getRoomSession", r)
    /\ UNCHANGED <<stopCount, noted>>
    /\ UNCHANGED envVars
    /\ UNCHANGED evVars

\* ---------------------------------------------------- transition detector
\* refreshRoom, line 151.
isNewSession(r) == ~Has(r)

\* Faulty variant: line 154 without the isNewSession conjunct.
wasActiveIgnoringNew(rs, r) ==
    MembersAfterGet(rs, r)[r] > 0

\* Faulty variant: line 154 with the isNewSession test inverted.
wasActiveOrNew(rs, r) ==
    MembersAfterGet(rs, r)[r] > 0 \/ isNewSession(r)

\* refreshRoom, line 154.
wasActiveAndKnown(rs, r) ==
    MembersAfterGet(rs, r)[r] > 0 /\ ~isNewSession(r)

\* refreshRoom, line 158.
nowActive(rs, r) == rs[r] > 0

\* Faulty variant: level-triggered notifications.
transitionLevelTriggered(was, now, r, s) ==
    IF now THEN <<Note(SessionStarted, r, s)>>
    ELSE IF was THEN <<Note(SessionEnded, r, s)>> ELSE <<>>

\* Faulty variant: the two notification types exchanged.
transitionSwapped(was, now, r, s) ==
    IF was /\ ~now THEN <<Note(SessionStarted, r, s)>>
    ELSE IF ~was /\ now THEN <<Note(SessionEnded, r, s)>>
    ELSE <<>>

\* refreshRoom, lines 160-164: the notifications emitted.
transition(was, now, r, s) ==
    IF was /\ ~now THEN <<Note(SessionEnded, r, s)>>
    ELSE IF ~was /\ now THEN <<Note(SessionStarted, r, s)>>
    ELSE <<>>

\* The last notification of each room once the notifications notes of
\* lines 161 and 163 are out.
Noted(notes) ==
    IF notes = <<>> THEN noted
    ELSE [noted EXCEPT ![notes[Len(notes)].roomId] = notes[Len(notes)].type]

\* refreshRoom(room) run against the room state rs.
refreshRoom(rs, r) ==
    /\ CanGet(r)
    /\ ApplyGet(r)
    /\ memberships' = onRTCSessionMemberUpdate(MembersAfterGet(rs, r), rs, r)
    /\ calls' = <<Call("onRTCSessionMemberUpdate", getRoomSessionResult(r))>>
    /\ emitted' = transition(wasActiveAndKnown(rs, r), nowActive(rs, r), r,
                             getRoomSessionMap(r)[r])
    /\ noted' = Noted(emitted')
    /\ UNCHANGED stopCount

\* ------------------------------------------------- room and state events
\* Room state once the client holds room r: a room it did not know arrives
\* with n memberships in its state.
StateWithRoom(r, n) ==
    IF r \in knownRooms THEN roomMembers ELSE [roomMembers EXCEPT ![r] = n]

\* The client adds room r (or reports a room it already holds) and emits
\* ClientEvent.Room; onRoom, line 135.
onRoom(r, n) ==
    /\ "Room" \in subscribed
    /\ r \in knownRooms => n = roomMembers[r]
    /\ knownRooms' = knownRooms \cup {r}
    /\ roomMembers' = StateWithRoom(r, n)
    /\ refreshRoom(roomMembers', r)
    /\ ret' = NoSession
    /\ last' = Op("onRoom", r)
    /\ UNCHANGED subscribed
    /\ UNCHANGED evVars

\* The client adds room r while nothing listens.
RoomUnheard(r, n) ==
    /\ "Room" \notin subscribed
    /\ r \notin knownRooms
    /\ knownRooms' = knownRooms \cup {r}
    /\ roomMembers' = StateWithRoom(r, n)
    /\ emitted' = <<>>
    /\ calls' = <<>>
    /\ ret' = NoSession
    /\ last' = Op("-", "-")
    /\ UNCHANGED subscribed
    /\ UNCHANGED <<regVars, noted>>
    /\ UNCHANGED evVars

\* Room state after a state event of type t that leaves n memberships in
\* room rid; only membership events of a resolvable room change the count.
StateAfter(rid, t, n) ==
    IF rid \in knownRooms /\ t = GroupCallMemberPrefix
      THEN [roomMembers EXCEPT ![rid] = n] ELSE roomMembers

\* The membership counts a state event of type t for room rid can leave:
\* any for a membership event of a room the client holds, none to choose
\* otherwise (StateAfter ignores it).
Counts(rid, t) ==
    IF rid \in knownRooms /\ t = GroupCallMemberPrefix THEN 0..MaxMembers
                                                       ELSE {0}

\* onRoomState, lines 139-140: client.getRoom(event.getRoomId()) finds a room.
resolves(rid) == rid \in knownRooms

\* Faulty variant: the type test of line 145 is missing.
isMemberEventAny(t) == TRUE

\* onRoomState, line 145.
isMemberEvent(t) == t = GroupCallMemberPrefix

onRoomState(rid, t, n) ==
    /\ "RoomState" \in subscribed
    /\ roomMembers' = StateAfter(rid, t, n)
    /\ IF resolves(rid) /\ isMemberEvent(t)
         THEN refreshRoom(roomMembers', rid)
         ELSE /\ emitted' = <<>>
              /\ calls' = <<>>
              /\ UNCHANGED <<regVars, noted>>
    /\ ret' = NoSession
    /\ last' = StateOp(rid, t)
    /\ UNCHANGED <<knownRooms, subscribed>>
    /\ UNCHANGED evVars

\* A membership change while nothing listens.
RoomStateUnheard(rid, n) ==
    /\ "RoomState" \notin subscribed
    /\ rid \in knownRooms
    /\ roomMembers[rid] # n
    /\ roomMembers' = [roomMembers EXCEPT ![rid] = n]
    /\ emitted' = <<>>
    /\ calls' = <<>>
    /\ ret' = NoSession
    /\ last' = Op("-", "-")
    /\ UNCHANGED <<knownRooms, subscribed>>
    /\ UNCHANGED <<regVars, noted>>
    /\ UNCHANGED evVars

\* -------------------------------------------------------- decryption gate
\* Timeline events are delivered in the order of their numbers.
Deliverable(e) ==
    /\ evPhase[e] = "new"
    /\ \A d \in Events : d < e => evPhase[d] # "new"

\* onTimeline, line 131, up to the await of line 104: event e of room rid.
onTimeline(e, rid) ==
    /\ "Timeline" \in subscribed
    /\ Deliverable(e)
    /\ evRoom' = [evRoom EXCEPT ![e] = rid]
    /\ evPhase' = [evPhase EXCEPT ![e] = "await"]
    /\ evReq' = [evReq EXCEPT ![e] = @ + 1]
    /\ emitted' = <<>>
    /\ calls' = <<>>
    /\ ret' = NoSession
    /\ last' = Op("-", "-")
    /\ UNCHANGED <<evType, evRetry, evFailed, evWarn, dispatched>>
    /\ UNCHANGED <<regVars, noted>>
    /\ UNCHANGED envVars

\* Faulty variant: the isRetry test of line 106 is missing.
schedulesRetryAlways(failed, isRetry) == failed

\* Lines 105-106: a failed decryption that schedules the retry.
schedulesRetry(failed, isRetry) == failed /\ ~isRetry

\* Faulty variant: the type filter of line 120 is missing.
isKeysEventAny(t) == TRUE

\* Line 120: the event is of the control type.
isKeysEvent(t) == t = CallEncryptionKeysPrefix

\* Faulty variant: the null check of line 123 is missing.
roomResolvesAny(rid) == rid \in Rooms

\* Lines 122-123: client.getRoom(event.getRoomId()) finds a room.
roomResolves(rid) == rid \in knownRooms

\* Faulty variant: the dispatch of line 128 reports the session it reaches
\* the way refreshRoom does.
dispatchRefreshing(r) ==
    transition(wasActiveAndKnown(roomMembers, r),
               MembersAfterGet(roomMembers, r)[r] > 0, r,
               getRoomSessionResult(r))

\* Line 128: the notifications of the dispatch; the path holds no emit.
dispatchEmits(r) == <<>>

\* Lines 105-128, the part of consumeCallEncryptionEvent that follows the
\* await: client.decryptEventIfNeeded(e) has settled and either left the
\* event a decryption failure (t = "-", its type stays hidden) or made it
\* readable with getType() = t.
consumeCallEncryptionEvent(e, t) ==
    /\ evPhase[e] = "await"
    /\ evFailed' = [evFailed EXCEPT ![e] = (t = "-")]
    /\ evType' = [evType EXCEPT ![e] = t]
    /\ IF t = "-"
         THEN \* lines 105-115
              /\ evWarn' = [evWarn EXCEPT ![e] = @ + 1]
              /\ evPhase' = [evPhase EXCEPT ![e] =
                     IF schedulesRetry(TRUE, evRetry[e]) THEN "timer"
                                                         ELSE "dropped"]
              /\ calls' = <<>>
              /\ emitted' = <<>>
              /\ UNCHANGED <<dispatched, regVars, noted>>
         ELSE IF ~isKeysEvent(t)
         THEN \* line 120
              /\ evPhase' = [evPhase EXCEPT ![e] = "ignored"]
              /\ calls' = <<>>
              /\ emitted' = <<>>
              /\ UNCHANGED <<evWarn, dispatched, regVars, noted>>
         ELSE IF ~roomResolves(evRoom[e])
         THEN \* lines 122-126
              /\ evPhase' = [evPhase EXCEPT ![e] = "unknownRoom"]
              /\ calls' = <<>>
              /\ emitted' = <<>>
              /\ UNCHANGED <<evWarn, dispatched, regVars, noted>>
         ELSE \* line 128
              /\ CanGet(evRoom[e])
              /\ ApplyGet(evRoom[e])
              /\ memberships' = MembersAfterGet(roomMembers, evRoom[e])
              /\ dispatched' = Append(dispatched, e)
              /\ evPhase' = [evPhase EXCEPT ![e] = "dispatched"]
              /\ calls' = <<Call("onCallEncryption",
                                 getRoomSessionResult(evRoom[e]))>>
              /\ emitted' = dispatchEmits(evRoom[e])
              /\ UNCHANGED <<evWarn, stopCount, noted>>
    /\ ret' = NoSession
    /\ last' = Op("consumeCallEncryptionEvent", evRoom[e])
    /\ UNCHANGED <<evRoom, evRetry, evReq>>
    /\ UNCHANGED envVars

\* Line 111: the timer fires and re-enters the gate with isRetry = true,
\* up to the await of line 104.
retryTimer(e) ==
    /\ evPhase[e] = "timer"
    /\ evPhase' = [evPhase EXCEPT ![e] = "await"]
    /\ evRetry' = [evRetry EXCEPT ![e] = TRUE]
    /\ evReq' = [evReq EXCEPT ![e] = @ + 1]
    /\ emitted' = <<>>
    /\ calls' = <<>>
    /\ ret' = NoSession
    /\ last' = Op("-", "-")
    /\ UNCHANGED <<evRoom, evType, evFailed, evWarn, dispatched>>
    /\ UNCHANGED <<regVars, noted>>
    /\ UNCHANGED envVars

\* ---------------------------------------------------------- specification
Next ==
    \/ start
    \/ stop
    \/ \E r \in Rooms : getActiveRoomSession(r)
    \/ \E r \in Rooms : getRoomSession(r)
    \/ \E r \in Rooms, n \in 0..MaxMembers : onRoom(r, n)
    \/ \E r \in Rooms, n \in 0..MaxMembers : RoomUnheard(r, n)
    \/ \E rid \in RoomIds, t \in {GroupCallMemberPrefix, OtherType} :
          \E n \in Counts(rid, t) : onRoomState(rid, t, n)
    \/ \E rid \in Rooms, n \in 0..MaxMembers : RoomStateUnheard(rid, n)
    \/ \E e \in Events, rid \in Rooms : onTimeline(e, rid)
    \/ \E e \in Events, t \in {"-", CallEncryptionKeysPrefix, OtherType} :
          consumeCallEncryptionEvent(e, t)
    \/ \E e \in Events : retryTimer(e)

Spec == Init /\ [][Next]_vars

\* Scheduling: every decryption requested at line 104 settles, and every
\* timer set at line 111 fires.
Fairness ==
    \A e \in Events :
        /\ WF_vars(\E t \in {"-", CallEncryptionKeysPrefix, OtherType} :
                      consumeCallEncryptionEvent(e, t))
        /\ WF_vars(retryTimer(e))

FairSpec == Spec /\ Fairness

TypeOK ==
    /\ knownRooms \subseteq Rooms
    /\ roomMembers \in [Rooms -> 0..MaxMembers]
    /\ subscribed \in {{}, Streams}
    /\ roomSessions \in [Rooms -> {NoSession} \cup Sessions]
    /\ nextId \in 1..(MaxSessions + 1)
    /\ memberships \in [Rooms -> 0..MaxMembers]
    /\ stopCount \in [Sessions -> Nat]
    /\ evWarn \in [Events -> 0..2]
    /\ evReq \in [Events -> 0..2]
    /\ evPhase \in [Events -> {"new", "await", "timer", "dropped", "ignored",
                               "unknownRoom", "dispatched"}]
    /\ noted \in [Rooms -> {"-", SessionStarted, SessionEnded}]

\* ------------------------------------------------------------ properties
Running == subscribed = Streams
Registered(r) == roomSessions[r]
Started(r, s) == <<Note(SessionStarted, r, s)>>
Ended(r, s) == <<Note(SessionEnded, r, s)>>

\* The step is a refresh (a room-appeared event or a membership room-state
\* event of a resolvable room) of room r.
RefreshOf(r) ==
    /\ last'.op \in {"onRoom", "onRoomState"}
    /\ last'.room = r
    /\ calls' # <<>>

\* C1: while the manager is running, getRoomSession(room) returns the
\* object registered for the room, and no step (room-appeared, room-state,
\* timeline event, decryption retry or lookup) replaces a registered object
\* by another one; hence any two calls return the same object.
C1_IdentityStability ==
    [][(Running /\ Running') =>
        \A r \in Rooms :
            /\ Has(r) => roomSessions'[r] = roomSessions[r]
            /\ (last'.op = "getRoomSession" /\ last'.room = r) =>
                  /\ ret' = roomSessions'[r]
                  /\ ret' # NoSession]_vars

C1_Witness ==
    /\ Running
    /\ last.op = "getRoomSession"
    /\ ret = roomSessions[last.room]
    /\ ret # NoSession
    /\ dispatched # <<>>

\* C2: once a registry entry exists no operation overwrites it with another
\* object; it only disappears when stop() clears the whole registry.
C2_NeverOverwritten ==
    [][\A r \in Rooms :
          Has(r) =>
              \/ roomSessions'[r] = roomSessions[r]
              \/ /\ last'.op = "stop"
                 /\ \A q \in Rooms : roomSessions'[q] = NoSession]_vars

\* C3: a refresh of a tracked room emits SessionStarted iff the session had
\* no members before the update and has members after it, SessionEnded iff
\* it had members before and has none after, and nothing otherwise.
C3_EdgeTriggered ==
    [][\A r \in Rooms :
          (RefreshOf(r) /\ Has(r)) =>
              LET s == roomSessions[r]
                  was == memberships[r] > 0
                  now == memberships'[r] > 0
              IN /\ roomSessions'[r] = s
                 /\ (~was /\ now) => emitted' = Started(r, s)
                 /\ (was /\ ~now) => emitted' = Ended(r, s)
                 /\ (was = now) => emitted' = <<>>]_vars

C3_Witness ==
    /\ last.op = "onRoomState"
    /\ last.room \in Rooms
    /\ Has(last.room)
    /\ memberships[last.room] = 0
    /\ emitted = Ended(last.room, roomSessions[last.room])

\* C4 as stated: a room first observed through room-appeared whose fresh
\* session has members is registered without a SessionStarted.
C4_NoStartOnDiscovery ==
    [][\A r \in Rooms :
          (last'.op = "onRoom" /\ last'.room = r /\ ~Has(r)
              /\ memberships'[r] > 0) =>
                 emitted' = <<>>]_vars

\* C4 amended: a room first observed through room-appeared whose fresh
\* session has members is registered and exactly one SessionStarted is
\* emitted for it, carrying the registered session.
C4_StartOnDiscovery ==
    [][\A r \in Rooms :
          (last'.op = "onRoom" /\ last'.room = r /\ ~Has(r)) =>
              /\ roomSessions'[r] = nextId
              /\ memberships'[r] > 0 => emitted' = Started(r, nextId)
              /\ memberships'[r] = 0 => emitted' = <<>>]_vars

C4_Witness ==
    /\ last.op = "onRoom"
    /\ Has(last.room)
    /\ roomSessions[last.room] = nextId - 1
    /\ memberships[last.room] > 0
    /\ emitted = Started(last.room, roomSessions[last.room])

\* Number of onCallEncryption calls made for event e.
Dispatches(e) ==
    Cardinality({i \in 1..Len(dispatched) : dispatched[i] = e})

\* The step runs the part of consumeCallEncryptionEvent(e) after the await.
Settles(e) == evPhase[e] = "await" /\ evPhase'[e] # "await"

\* C5: a control event of a known room whose decryption fails and then
\* succeeds on the retry is passed to onCallEncryption exactly once; one
\* whose decryption fails twice is never passed on, has logged exactly two
\* warnings, and no further decryption is requested or scheduled for it.
C5_AtMostOneRetry ==
    /\ [](\A e \in Events :
            /\ evReq[e] <= 2
            /\ Dispatches(e) <= 1
            /\ evPhase[e] = "dropped" =>
                  evReq[e] = 2 /\ evWarn[e] = 2 /\ Dispatches(e) = 0
            /\ (evPhase[e] = "dispatched" /\ evRetry[e]) =>
                  evReq[e] = 2 /\ evWarn[e] = 1 /\ Dispatches(e) = 1)
    /\ [][\A e \in Events :
            /\ evPhase[e] = "dropped" =>
                  evPhase'[e] = "dropped" /\ evReq'[e] = evReq[e]
            /\ (Settles(e) /\ evRetry[e] /\ ~evFailed'[e]
                  /\ evType'[e] = CallEncryptionKeysPrefix
                  /\ evRoom[e] \in knownRooms) =>
                     evPhase'[e] = "dispatched"
            /\ (Settles(e) /\ evRetry[e] /\ evFailed'[e]) =>
                  evPhase'[e] = "dropped"]_vars

C5_Witness ==
    /\ \E e \in Events : evPhase[e] = "dropped" /\ evWarn[e] = 2
    /\ \E e \in Events :
          evPhase[e] = "dispatched" /\ evRetry[e] /\ Dispatches(e) = 1

\* C6: stop() leaves the registry empty and the manager unsubscribed from
\* the three streams, and invokes stop() exactly once on each session that
\* was in the registry and on no other.
C6_ShutdownClears ==
    [][last'.op = "stop" =>
          /\ \A r \in Rooms : roomSessions'[r] = NoSession
          /\ subscribed' = {}
          /\ \A s \in Sessions :
                stopCount'[s] = stopCount[s] + (IF s \in Tracked THEN 1 ELSE 0)
          /\ Len(calls') = Cardinality(Tracked)
          /\ \A s \in Tracked :
                \E i \in 1..Len(calls') : calls'[i] = Call("stop", s)
          /\ \A s \in Tracked : stopCount'[s] = 1]_vars

C6_Witness ==
    /\ last.op = "stop"
    /\ calls # <<>>
    /\ \A r \in Rooms : roomSessions[r] = NoSession
    /\ \E s \in Sessions : stopCount[s] = 1

\* C7: a room-state event, or a timeline event, whose room the client does
\* not resolve emits nothing, calls no session and leaves the registry (and
\* the sessions) exactly as they were.
C7_UnknownRoom ==
    [][/\ (last'.op = "onRoomState" /\ last'.room \notin knownRooms) =>
              /\ emitted' = <<>>
              /\ calls' = <<>>
              /\ UNCHANGED <<regVars, dispatched>>
       /\ \A e \in Events :
             (Settles(e) /\ evRoom[e] \notin knownRooms) =>
                 /\ emitted' = <<>>
                 /\ calls' = <<>>
                 /\ UNCHANGED <<regVars, dispatched>>]_vars

C7_Witness ==
    /\ \E e \in Events : evPhase[e] = "unknownRoom"
    /\ last.op = "onRoomState"
    /\ last.room = GhostRoom
    /\ \E r \in Rooms : Has(r)

\* C8: once stop() has returned, a decryption that completes (first attempt
\* or retry) and a retry timer that fires never add an entry to the
\* registry.
C8_NoEntryAfterStop ==
    [][\A e \in Events :
          (subscribed = {} /\ evPhase[e] \in {"await", "timer"}
              /\ evPhase'[e] # evPhase[e]) =>
                 roomSessions' = roomSessions]_vars

\* C9 as stated: two control events of one room that both decrypt on the
\* first attempt are passed to onCallEncryption in delivery order.
Position(e) == CHOOSE i \in 1..Len(dispatched) : dispatched[i] = e
C9_DeliveryOrder ==
    \A e1, e2 \in Events :
        (/\ e1 < e2
         /\ evPhase[e1] = "dispatched" /\ evPhase[e2] = "dispatched"
         /\ ~evRetry[e1] /\ ~evRetry[e2]
         /\ evRoom[e1] = evRoom[e2]) => Position(e1) < Position(e2)

\* C9 amended: decryption is requested in delivery order, and a control
\* event of a known room is passed to onCallEncryption in the very step its
\* own decryption completes, so that calls follow the order in which the
\* decryptions complete; nothing else is ever passed to onCallEncryption.
C9_CompletionOrder ==
    /\ [](\A e1, e2 \in Events : (e1 < e2 /\ evReq[e2] > 0) => evReq[e1] > 0)
    /\ [][\A e \in Events :
            /\ (Settles(e) /\ ~evFailed'[e]
                  /\ evType'[e] = CallEncryptionKeysPrefix
                  /\ evRoom[e] \in knownRooms) =>
                     dispatched' = Append(dispatched, e)
            /\ (Settles(e) /\ ~(~evFailed'[e] /\ evType'[e] =
                                     CallEncryptionKeysPrefix
                                 /\ evRoom[e] \in knownRooms)) =>
                     dispatched' = dispatched
            /\ ~(\E d \in Events : Settles(d)) =>
                     dispatched' = dispatched]_vars

C9_Witness ==
    /\ Len(dispatched) = 2
    /\ dispatched[1] > dispatched[2]
    /\ \A e \in Events : evPhase[e] = "dispatched" /\ ~evRetry[e]

C11_ActiveLookupHasMembers ==
    (last.op = "getActiveRoomSession" /\ ret # NoSession) =>
        memberships[last.room] > 0

\* C12: start() on an empty registry registers a session for exactly the
\* known rooms whose room state has at least one membership (the session
\* holding those memberships), emits nothing and subscribes to the three
\* streams; when the client enumerates no room the registry stays empty.
C12_StartSeeds ==
    [][(last'.op = "start" /\ \A r \in Rooms : ~Has(r)) =>
          /\ \A r \in knownRooms :
                roomSessions'[r] # NoSession <=> roomMembers[r] > 0
          /\ \A r \in Rooms \ knownRooms : roomSessions'[r] = NoSession
          /\ \A r \in Rooms :
                roomSessions'[r] # NoSession =>
                    memberships'[r] = roomMembers[r]
          /\ emitted' = <<>>
          /\ subscribed' = Streams
          /\ knownRooms = {} =>
                \A r \in Rooms : roomSessions'[r] = NoSession]_vars

C12_Witness ==
    /\ last.op = "start"
    /\ subscribed = Streams
    /\ nextId = 2
    /\ \E r \in knownRooms : roomSessions[r] = 1 /\ memberships[r] > 0

\* C13: a room-state event that is not a membership announcement, and a
\* timeline event whose decrypted type is not the control type, leave the
\* registry and the sessions as they were: no object is constructed, no
\* session method is invoked and no notification is emitted.
C13_TypeFilter ==
    [][/\ (last'.op = "onRoomState" /\ last'.type # GroupCallMemberPrefix) =>
              /\ UNCHANGED <<regVars, dispatched>>
              /\ calls' = <<>>
              /\ emitted' = <<>>
       /\ \A e \in Events :
             (Settles(e) /\ ~evFailed'[e]
                 /\ evType'[e] # CallEncryptionKeysPrefix) =>
                    /\ UNCHANGED <<regVars, dispatched>>
                    /\ calls' = <<>>
                    /\ emitted' = <<>>]_vars

C13_Witness ==
    /\ last.op = "onRoomState"
    /\ last.type = OtherType
    /\ last.room \in knownRooms
    /\ \E e \in Events : evPhase[e] = "ignored" /\ evRoom[e] \in knownRooms

\* The entry points of the event router.
HandlerOps == {"onRoom", "onRoomState", "consumeCallEncryptionEvent"}

\* The step delivers to an entry point the event the previous step delivered
\* to it (same room, same type; for timeline events both decrypted and
\* reached onCallEncryption).
DeliveredAgain ==
    /\ last.op \in HandlerOps
    /\ last' = last
    /\ last.op = "consumeCallEncryptionEvent" => (calls # <<>> /\ calls' # <<>>)

\* C14: delivering the same room-appeared, room-state or decrypted timeline
\* event for a room twice in a row leaves the registry as the first delivery
\* left it: the second delivery constructs no object, changes no entry and
\* reaches the same session object, and after any delivery that reached the
\* registry one more getRoomSession for the room would change nothing.
C14_Idempotent ==
    [][/\ DeliveredAgain =>
              /\ roomSessions' = roomSessions
              /\ nextId' = nextId
              /\ (calls # <<>> /\ calls' # <<>>) =>
                    calls'[1].session = calls[1].session
       /\ \A r \in Rooms :
             (last'.op \in HandlerOps /\ last'.room = r /\ calls' # <<>>) =>
                 /\ roomSessions'[r] # NoSession
                 /\ (getRoomSessionMap(r))' = roomSessions'
                 /\ \A q \in Rooms \ {r} : roomSessions'[q] = roomSessions[q]]_vars

\* A room-appeared event for a room that was already tracked with members.
C14_Witness ==
    /\ last.op = "onRoom"
    /\ Has(last.room)
    /\ memberships[last.room] > 0
    /\ emitted = <<>>
    /\ calls = <<Call("onRTCSessionMemberUpdate", roomSessions[last.room])>>
    /\ Len(dispatched) = 2

\* C15: a refresh (room-appeared or membership room-state event) of a room
\* that has no registry entry never emits SessionEnded, whether the session
\* it creates has members or not.
C15_NewSessionNeverEnds ==
    [][\A r \in Rooms :
          (RefreshOf(r) /\ ~Has(r)) =>
              /\ roomSessions'[r] = nextId
              /\ \A i \in 1..Len(emitted') : emitted'[i].type # SessionEnded]_vars

\* A room-appeared event has just created the first session object, for a
\* room without members, and nothing was emitted.
C15_Witness ==
    /\ last.op = "onRoom"
    /\ calls = <<Call("onRTCSessionMemberUpdate", 1)>>
    /\ nextId = 2
    /\ roomSessions[last.room] = 1
    /\ memberships[last.room] = 0
    /\ emitted = <<>>
    /\ \A s \in Sessions : stopCount[s] = 0
    /\ \A e \in Events : evPhase[e] = "new"

\* Processing of event e has ended: it was passed to onCallEncryption or
\* dropped (two failures, another type, an unknown room).
Finished(e) == evPhase[e] \in {"dispatched", "dropped", "ignored", "unknownRoom"}

\* C16: for every delivered timeline event decryption is requested at most
\* twice and the retry timer is set at most once, only by a first attempt
\* that failed; and when requests settle and timers fire, processing of the
\* event ends, dispatched or dropped, leaving no retry pending and
\* requesting nothing further.
C16_BoundedRetry ==
    /\ [](\A e \in Events :
            /\ evReq[e] <= 2
            /\ evPhase[e] = "timer" =>
                  evReq[e] = 1 /\ evFailed[e] /\ ~evRetry[e])
    /\ [][\A e \in Events :
            /\ evReq'[e] >= evReq[e]
            /\ (evPhase'[e] = "timer" /\ evPhase[e] # "timer") =>
                  /\ evPhase[e] = "await"
                  /\ ~evRetry[e]
                  /\ evFailed'[e]
                  /\ evReq[e] = 1
            /\ Finished(e) =>
                  evPhase'[e] = evPhase[e] /\ evReq'[e] = evReq[e]]_vars
    /\ \A e \in Events : (evPhase[e] # "new") ~> Finished(e)

\* One event was dropped after its retry and another dispatched after its
\* retry.
C16_Witness ==
    /\ \E e \in Events : evPhase[e] = "dropped" /\ evReq[e] = 2
    /\ \E e \in Events : evPhase[e] = "dispatched" /\ evReq[e] = 2
    /\ \A e \in Events : Finished(e)

\* C17: between a start() and the next stop() the notifications of a room
\* alternate: SessionStarted is never emitted for a room whose last
\* notification was SessionStarted, nor SessionEnded for one whose last
\* notification was SessionEnded.
C17_Alternation ==
    [][\A i \in 1..Len(emitted') :
          noted[emitted'[i].roomId] # emitted'[i].type]_vars

\* A SessionStarted in the second run of the manager, for a session created
\* after the first one was stopped.
C17_Witness ==
    /\ last.op = "onRoomState"
    /\ last.room \in Rooms
    /\ emitted = Started(last.room, roomSessions[last.room])
    /\ noted[last.room] = SessionStarted
    /\ stopCount[1] = 1
    /\ roomSessions[last.room] = 2

\* C18: a notification names the session registered for its room at the
\* moment it is emitted; that session has at least one member when the
\* notification is SessionStarted and none when it is SessionEnded.
C18_ConsistentPayload ==
    \A i \in 1..Len(emitted) :
        /\ emitted[i].roomId \in Rooms
        /\ emitted[i].session # NoSession
        /\ emitted[i].session = roomSessions[emitted[i].roomId]
        /\ emitted[i].type = SessionStarted =>
              memberships[emitted[i].roomId] > 0
        /\ emitted[i].type = SessionEnded =>
              memberships[emitted[i].roomId] = 0

\* A room-appeared event for a tracked room whose members left while the
\* manager was not listening: SessionEnded carries the registered session.
C18_Witness ==
    /\ last.op = "onRoom"
    /\ emitted = Ended(last.room, roomSessions[last.room])
    /\ memberships[last.room] = 0

\* C19: no step of the timeline path (delivery, completion of a decryption,
\* firing of the retry timer) emits a notification, not even one that
\* creates a session with members; and while the manager is stopped no
\* notification is emitted at all, whatever completes in that window.
C19_TimelineSilent ==
    /\ [](subscribed = {} => emitted = <<>>)
    /\ [][(\E e \in Events : evPhase'[e] # evPhase[e]) =>
              emitted' = <<>> /\ noted' = noted]_vars

\* After stop() a retried decryption completed and its dispatch created a
\* session that has members; nothing was emitted.
C19_Witness ==
    /\ subscribed = {}
    /\ last.op = "consumeCallEncryptionEvent"
    /\ last.room \in Rooms
    /\ \E s \in Sessions : stopCount[s] = 1
    /\ roomSessions[last.room] = nextId - 1
    /\ calls = <<Call("onCallEncryption", roomSessions[last.room])>>
    /\ memberships[last.room] > 0
    /\ evRetry[dispatched[Len(dispatched)]]
    /\ emitted = <<>>

\* C20: a session object that has received stop() is never used again: it
\* is no registry entry (so no lookup, handler, retry or later start()
\* reaches it), it is not the value a lookup returned, no
\* onRTCSessionMemberUpdate or onCallEncryption is invoked on it, it is in no
\* notification, and it receives stop() only once.
C20_NoUseAfterStop ==
    /\ \A s \in Sessions : stopCount[s] <= 1
    /\ \A r \in Rooms : Has(r) => stopCount[roomSessions[r]] = 0
    /\ ret # NoSession => stopCount[ret] = 0
    /\ \A i \in 1..Len(calls) :
          calls[i].method # "stop" => stopCount[calls[i].session] = 0
    /\ \A i \in 1..Len(emitted) : stopCount[emitted[i].session] = 0

\* After session 1 was stopped, a lookup returns the session of the next
\* run, which has not been stopped.
C20_Witness ==
    /\ stopCount[1] = 1
    /\ last.op = "getActiveRoomSession"
    /\ ret = 2
    /\ stopCount[2] = 0
    /\ subscribed = Streams
    /\ dispatched # <<>>

====
